---- MODULE Spec2Model ----
(***************************************************************************)
(* A model of two components of the parallel command runner:               *)
(*                                                                         *)
(*   - InputIterator (src/arguments/iterator.rs): the buffered iterator    *)
(*     over the newline-delimited argument file;                           *)
(*   - handle_child (src/execute/child.rs): the supervisor of one child    *)
(*     process.                                                            *)
(*                                                                         *)
(* Spec is the iterator's state machine, SpecChild the supervisor's.       *)
(* The disk buffer (disk_buffer.rs), the output pipeline (pipe/disk.rs)    *)
(* and the signal resolver (signals.rs) are modelled from their            *)
(* specification.                                                          *)
(***************************************************************************)
EXTENDS Integers, Sequences, FiniteSets, TLC

\* ------------------------------------------------------------------ bounds
\* Size of the disk buffer's byte array (scaled down).
BUFFER_SIZE == 6
\* Longest argument file explored.
MaxFileLen == 7
\* Largest `args` handed to InputIterator::new.
MaxTotal == 3
\* Number of calls of next() explored on one iterator.
MaxCalls == 4

\* Capacity of one pipe of the child, in bytes.
PipeCap == 1
\* Most bytes the child writes to one stream.
MaxOutput == 2
\* Largest timeout handed to handle_child, in clock ticks.
MaxTimeout == 2
\* Last tick of the wall clock.
MaxTime == 3

\* --------------------------------------------------------------- constants
\* The signal handle_child reports for a child it killed on timeout.
SIGTERM == 15
\* The signal Child::kill sends.
SIGKILL == 9
\* b'\n'
NL == 10
\* U+FFFD, what String::from_utf8_lossy puts in place of a malformed byte.
REPLACEMENT_CHARACTER == 65533

\* The bytes a file is made of: the delimiter, an ASCII letter, and a byte
\* that is never valid UTF-8.
Bytes == {NL, 97, 255}

Min(a, b) == IF a <= b THEN a ELSE b

VARIABLES
    file,        \* the argument file's contents, a sequence of bytes
    iter,        \* the InputIterator
    ipc,         \* "unopened", "ready", "failed" (new returned Err), "panicked"
    out,         \* the items returned by the calls of next(), in order
    refill_log,  \* the arguments of the calls of DiskBufferReader::buffer
    read_errors  \* the reads of InputIterator::buffer() that returned Err

ivars == <<file, iter, ipc, out, refill_log, read_errors>>

VARIABLES
    has_timeout,        \* handle_child's argument
    timeout,            \* handle_child's argument, in clock ticks
    child,              \* the child process: state, exit status, output left
    pipe,               \* bytes in flight in the child's stdout and stderr pipes
    sink,               \* bytes pipe_output has handed to the sink
    now,                \* the wall clock
    cpc,                \* where handle_child is
    start_time,         \* handle_child's local
    wt_result,          \* what wait_timeout returned: "Some", "None", "Err"
    wait_result,        \* what child.wait() returned: "Ok", "Err"
    kill_calls,         \* calls of child.kill()
    pipe_output_calls,  \* calls of pipe_output
    pipe_output_done,   \* calls of pipe_output that returned
    ret                 \* the tuple handle_child returned

cvars == <<has_timeout, timeout, child, pipe, sink, now, cpc, start_time,
           wt_result, wait_result, kill_calls, pipe_output_calls,
           pipe_output_done, ret>>

vars == <<ivars, cvars>>

\* ------------------------------------------------------------ disk buffer
IndicesLen == BUFFER_SIZE \div 2

\* DiskBuffer::new(path).read(): the file is open at offset 0, nothing read.
DiskBufferOpen ==
    [data |-> [i \in 0..(BUFFER_SIZE - 1) |-> 0], capacity |-> 0, offset |-> 0]

\* DiskBufferReader::buffer(n): the first n bytes stay in place, up to
\* BUFFER_SIZE - n bytes are read from the file to offset n, and capacity
\* (the number of valid bytes) becomes n + bytes_read.
DiskBufferRefill(db, n) ==
    LET bytes_read == Min(BUFFER_SIZE - n, Len(file) - db.offset)
    IN  [data     |-> [i \in 0..(BUFFER_SIZE - 1) |->
                          IF n <= i /\ i < n + bytes_read
                          THEN file[db.offset + (i - n) + 1]
                          ELSE db.data[i]],
         capacity |-> n + bytes_read,
         offset   |-> db.offset + bytes_read]

\* ----------------------------------------------------------- input buffer
IsDelimiter(byte) == byte = NL

\* The body of the loop of count_arguments for one delimiter found at id:
\* indices[capacity + 1] = id panics when capacity + 1 is out of range.
MarkDelimiter(r, id) ==
    IF r.buf.capacity + 1 >= IndicesLen
    THEN [r EXCEPT !.panic = TRUE]
    ELSE [r EXCEPT !.buf.indices[r.buf.capacity + 1] = id,
                   !.buf.capacity = @ + 1,
                   !.buf.end = @ + 1]

RECURSIVE CountLoop(_, _, _)
CountLoop(r, id, bytes_read) ==
    IF r.panic \/ id >= Min(bytes_read, BUFFER_SIZE)
    THEN r
    ELSE IF IsDelimiter(r.buf.disk_buffer.data[id])
         THEN CountLoop(MarkDelimiter(r, id), id + 1, bytes_read)
         ELSE CountLoop(r, id + 1, bytes_read)

\* The last statement with the count taken for a position.
UsefulCapacity_count(buf) == buf.capacity

\* The last statement of count_arguments.
UsefulCapacity(buf) == buf.indices[buf.capacity]

\* InputBuffer::count_arguments(bytes_read): [buf, panic].
count_arguments(buf, bytes_read) ==
    LET r == CountLoop([buf |-> [buf EXCEPT !.capacity = 0], panic |-> FALSE],
                       0, bytes_read)
    IN  IF r.panic THEN r
        ELSE [r EXCEPT !.buf.capacity = UsefulCapacity(r.buf)]

\* InputBuffer::new(unprocessed), after its first read succeeded.
InputBufferNew(unprocessed) ==
    count_arguments([index       |-> 0,
                     start       |-> 0,
                     end         |-> 0,
                     capacity    |-> 0,
                     disk_buffer |-> unprocessed,
                     indices     |-> [i \in 0..(IndicesLen - 1) |-> 0]],
                    unprocessed.capacity)

\* --------------------------------------------------------- input iterator
\* The iterator before InputIterator::new has run.
Unopened ==
    [total_arguments |-> 0,
     curr_argument   |-> 0,
     input_buffer    |-> [index       |-> 0,
                          start       |-> 0,
                          end         |-> 0,
                          capacity    |-> 0,
                          disk_buffer |-> DiskBufferOpen,
                          indices     |-> [i \in 0..(IndicesLen - 1) |-> 0]]]

\* The argument buffer() hands to DiskBufferReader::buffer.
PreserveArg(it) == it.input_buffer.capacity

\* buffer() with the window start moved before the read is tried: a failed
\* read leaves the window changed.
buffer_startFirst(it, readOk) ==
    LET moved == [it EXCEPT !.input_buffer.start = it.input_buffer.end + 1]
    IN  IF ~readOk
        THEN [it |-> moved, res |-> "Err"]
        ELSE LET db == DiskBufferRefill(it.input_buffer.disk_buffer,
                                        PreserveArg(it))
                 r  == count_arguments(
                           [moved.input_buffer EXCEPT !.disk_buffer = db],
                           db.capacity)
             IN  IF r.panic
                 THEN [it |-> [it EXCEPT !.input_buffer = r.buf], res |-> "Panic"]
                 ELSE [it  |-> [it EXCEPT !.input_buffer =
                                              [r.buf EXCEPT !.index = 0]],
                       res |-> "Ok"]

\* InputIterator::buffer(): [it, res], res one of "Ok", "Err", "Panic".
buffer(it, readOk) ==
    IF ~readOk
    THEN [it |-> it, res |-> "Err"]
    ELSE LET db   == DiskBufferRefill(it.input_buffer.disk_buffer, PreserveArg(it))
             buf1 == [it.input_buffer EXCEPT !.disk_buffer = db,
                                             !.start = it.input_buffer.end + 1]
             r    == count_arguments(buf1, db.capacity)
         IN  IF r.panic
             THEN [it |-> [it EXCEPT !.input_buffer = r.buf], res |-> "Panic"]
             ELSE [it  |-> [it EXCEPT !.input_buffer = [r.buf EXCEPT !.index = 0]],
                   res |-> "Ok"]

\* Depleted with the comparison turned: the end is never noticed.
Depleted_gt(it) == it.curr_argument > it.total_arguments

\* The first test of next().
Depleted(it) == it.curr_argument = it.total_arguments

\* The second test of next().
WindowExhausted(it) == it.curr_argument = it.input_buffer.end

\* The start of the record at the cursor.
RecordStart(buf) ==
    IF buf.index = 0 THEN buf.indices[buf.index] ELSE buf.indices[buf.index] + 1

\* The end of the record at the cursor (index + 1 is in range).
RecordEnd(buf) == buf.indices[buf.index + 1]

\* data[start..end]
Slice(data, start, end) == [i \in 1..(end - start) |-> data[start + i - 1]]

\* String::from_utf8_lossy on the bytes of Bytes: one replacement character
\* for each byte that is not valid UTF-8.
from_utf8_lossy(bytes) ==
    [i \in 1..Len(bytes) |->
        IF bytes[i] < 128 THEN bytes[i] ELSE REPLACEMENT_CHARACTER]

None == [tag |-> "None"]
SomeErr == [tag |-> "Err", kind |-> "FileRead"]
SomeOk(s) == [tag |-> "Ok", val |-> s]
Panic == [tag |-> "Panic"]

\* Emit with the emitted counter stepped twice.
Emit_twice(it) ==
    LET buf == it.input_buffer
    IN  IF buf.index + 1 >= IndicesLen
        THEN [it |-> it, item |-> Panic]
        ELSE LET end   == RecordEnd(buf)
                 start == RecordStart(buf)
                 it1   == [it EXCEPT !.curr_argument = @ + 2,
                                     !.input_buffer.index = @ + 1]
             IN  IF start > end \/ end > BUFFER_SIZE
                 THEN [it |-> it1, item |-> Panic]
                 ELSE [it   |-> it1,
                       item |-> SomeOk(from_utf8_lossy(
                                    Slice(buf.disk_buffer.data, start, end)))]

\* The part of next() after the two tests: read the record at the cursor.
Emit(it) ==
    LET buf == it.input_buffer
    IN  IF buf.index + 1 >= IndicesLen
        THEN [it |-> it, item |-> Panic]
        ELSE LET end   == RecordEnd(buf)
                 start == RecordStart(buf)
                 it1   == [it EXCEPT !.curr_argument = @ + 1,
                                     !.input_buffer.index = @ + 1]
             IN  IF start > end \/ end > BUFFER_SIZE
                 THEN [it |-> it1, item |-> Panic]
                 ELSE [it   |-> it1,
                       item |-> SomeOk(from_utf8_lossy(
                                    Slice(buf.disk_buffer.data, start, end)))]

\* InputIterator::next(): [it, item].
next(it, readOk) ==
    IF Depleted(it)
    THEN [it |-> it, item |-> None]
    ELSE IF WindowExhausted(it)
         THEN LET b == buffer(it, readOk)
              IN  CASE b.res = "Err"   -> [it |-> b.it, item |-> SomeErr]
                    [] b.res = "Panic" -> [it |-> b.it, item |-> Panic]
                    [] OTHER           -> Emit(b.it)
         ELSE Emit(it)

\* Whether this call of next() calls DiskBufferReader::buffer.
Refills(it) == ~Depleted(it) /\ WindowExhausted(it)

\* ------------------------------------------------------------- the child
Streams == {"stdout", "stderr"}
ExitCodes == {0, 3}
\* The signals sent to the child from outside: SIGINT and SIGTERM.
Signals == {2, SIGTERM}

NoTuple == [start |-> -1, end |-> -1, exit_code |-> 0, signal |-> 0]

\* The child is running and cannot go on: it has output left for a stream
\* whose pipe is full.
Blocked ==
    /\ child.state = "running"
    /\ \E s \in Streams : child.to_write[s] > 0 /\ pipe[s] = PipeCap

\* The child writes one byte to a pipe that has room.
ChildWrite ==
    /\ child.state = "running"
    /\ \E s \in Streams :
          /\ child.to_write[s] > 0
          /\ pipe[s] < PipeCap
          /\ child' = [child EXCEPT !.to_write[s] = @ - 1]
          /\ pipe' = [pipe EXCEPT ![s] = @ + 1]
    /\ UNCHANGED <<has_timeout, timeout, sink, now, cpc, start_time, wt_result,
                   wait_result, kill_calls, pipe_output_calls,
                   pipe_output_done, ret>>
    /\ UNCHANGED ivars

\* The child, having written its output, closes its streams and runs on.
ChildClose ==
    /\ child.state = "running"
    /\ ~child.closed
    /\ \A s \in Streams : child.to_write[s] = 0
    /\ child' = [child EXCEPT !.closed = TRUE]
    /\ UNCHANGED <<has_timeout, timeout, pipe, sink, now, cpc, start_time,
                   wt_result, wait_result, kill_calls, pipe_output_calls,
                   pipe_output_done, ret>>
    /\ UNCHANGED ivars

\* The child, having written its output, exits by itself with a code.
ChildExit ==
    /\ child.state = "running"
    /\ \A s \in Streams : child.to_write[s] = 0
    /\ \E c \in ExitCodes :
          child' = [child EXCEPT !.state = "exited", !.code = c, !.closed = TRUE]
    /\ UNCHANGED <<has_timeout, timeout, pipe, sink, now, cpc, start_time,
                   wt_result, wait_result, kill_calls, pipe_output_calls,
                   pipe_output_done, ret>>
    /\ UNCHANGED ivars

\* The child is terminated by a signal sent from outside.
ChildSignalled ==
    /\ child.state = "running"
    /\ \E sig \in Signals :
          child' = [child EXCEPT !.state = "signalled", !.signal = sig,
                                 !.closed = TRUE]
    /\ UNCHANGED <<has_timeout, timeout, pipe, sink, now, cpc, start_time,
                   wt_result, wait_result, kill_calls, pipe_output_calls,
                   pipe_output_done, ret>>
    /\ UNCHANGED ivars

\* The wall clock advances.
Tick ==
    /\ now < MaxTime
    /\ now' = now + 1
    /\ UNCHANGED <<has_timeout, timeout, child, pipe, sink, cpc, start_time,
                   wt_result, wait_result, kill_calls, pipe_output_calls,
                   pipe_output_done, ret>>
    /\ UNCHANGED ivars

\* ---------------------------------------------------------- handle_child
\* status.code(): Some(exit) for a normal exit, None otherwise.
StatusCode(st) == IF st.state = "exited" THEN [some |-> TRUE, exit |-> st.code]
                  ELSE [some |-> FALSE]

\* signals::get(status): the number of the signal that terminated the child.
signals_get(st) == st.signal

\* The tuple of the timeout branch.
TimeoutTuple(start, end) ==
    [start |-> start, end |-> end, exit_code |-> -1, signal |-> SIGTERM]

\* StatusTuple without the call of signals::get: a signalled child is
\* reported with signal 0.
StatusTuple_noSignal(start, end, waitOk, st) ==
    IF waitOk /\ st.state = "exited"
    THEN [start |-> start, end |-> end, exit_code |-> st.code, signal |-> 0]
    ELSE [start |-> start, end |-> end, exit_code |-> -1, signal |-> 0]

\* The match on child.wait() of the other branch.
StatusTuple(start, end, waitOk, st) ==
    IF waitOk
    THEN IF StatusCode(st).some
         THEN [start |-> start, end |-> end,
               exit_code |-> StatusCode(st).exit, signal |-> 0]
         ELSE [start |-> start, end |-> end,
               exit_code |-> -1, signal |-> signals_get(st)]
    ELSE [start |-> start, end |-> end, exit_code |-> -1, signal |-> 0]

\* AfterStart without the drain of the branch that has no deadline.
AfterStart_noDrain(ht) == IF ht THEN "wait_timeout" ELSE "wait"

\* Where handle_child goes after `let start_time = get_time()`.
AfterStart(ht) == IF ht THEN "wait_timeout" ELSE "pipe_output"

\* AfterExpiry without the kill: the drain starts at once.
AfterExpiry_noKill == "pipe_output_killed"

\* Where handle_child goes when wait_timeout returned Ok(None).
AfterExpiry == "kill"

\* Where handle_child goes after child.kill().
AfterKill == "pipe_output_killed"

\* Where handle_child goes when wait_timeout returned Ok(Some(status)).
AfterExited == "pipe_output"

\* The calls of pipe_output so far, after a move to position pc.
CallsAt(pc) ==
    IF pc \in {"pipe_output", "pipe_output_killed"}
    THEN pipe_output_calls + 1 ELSE pipe_output_calls

\* let start_time = get_time(); and the test of has_timeout.
Start ==
    /\ cpc = "entry"
    /\ start_time' = now
    /\ cpc' = AfterStart(has_timeout)
    /\ pipe_output_calls' = CallsAt(cpc')
    /\ UNCHANGED <<has_timeout, timeout, child, pipe, sink, now, wt_result,
                   wait_result, kill_calls, pipe_output_done, ret>>
    /\ UNCHANGED ivars

\* child.wait_timeout(timeout) returns Ok(Some(status)): the child has
\* terminated.
WaitTimeoutExited ==
    /\ cpc = "wait_timeout"
    /\ child.state # "running"
    /\ wt_result' = "Some"
    /\ cpc' = AfterExited
    /\ pipe_output_calls' = CallsAt(cpc')
    /\ UNCHANGED <<has_timeout, timeout, child, pipe, sink, now, start_time,
                   wait_result, kill_calls, pipe_output_done, ret>>
    /\ UNCHANGED ivars

\* child.wait_timeout(timeout) returns Ok(None): the timeout has passed and
\* the child is still running.
WaitTimeoutExpired ==
    /\ cpc = "wait_timeout"
    /\ child.state = "running"
    /\ now >= start_time + timeout
    /\ wt_result' = "None"
    /\ cpc' = AfterExpiry
    /\ pipe_output_calls' = CallsAt(cpc')
    /\ UNCHANGED <<has_timeout, timeout, child, pipe, sink, now, start_time,
                   wait_result, kill_calls, pipe_output_done, ret>>
    /\ UNCHANGED ivars

\* child.wait_timeout(timeout) returns Err: unwrap() panics.
WaitTimeoutErr ==
    /\ cpc = "wait_timeout"
    /\ wt_result' = "Err"
    /\ cpc' = "panicked"
    /\ UNCHANGED <<has_timeout, timeout, child, pipe, sink, now, start_time,
                   wait_result, kill_calls, pipe_output_calls,
                   pipe_output_done, ret>>
    /\ UNCHANGED ivars

\* let _ = child.kill(): a running child is killed unless the kill fails;
\* the result is dropped.
Kill ==
    /\ cpc = "kill"
    /\ kill_calls' = kill_calls + 1
    /\ \E killOk \in BOOLEAN :
          child' = IF child.state = "running" /\ killOk
                   THEN [child EXCEPT !.state = "signalled", !.signal = SIGKILL,
                                      !.closed = TRUE]
                   ELSE child
    /\ cpc' = AfterKill
    /\ pipe_output_calls' = CallsAt(cpc')
    /\ UNCHANGED <<has_timeout, timeout, pipe, sink, now, start_time, wt_result,
                   wait_result, pipe_output_done, ret>>
    /\ UNCHANGED ivars

\* pipe_output reads one byte of a stream and hands it to the sink.
DrainRead ==
    /\ cpc \in {"pipe_output", "pipe_output_killed"}
    /\ \E s \in Streams :
          /\ pipe[s] > 0
          /\ pipe' = [pipe EXCEPT ![s] = @ - 1]
          /\ sink' = [sink EXCEPT ![s] = @ + 1]
    /\ UNCHANGED <<has_timeout, timeout, child, now, cpc, start_time, wt_result,
                   wait_result, kill_calls, pipe_output_calls,
                   pipe_output_done, ret>>
    /\ UNCHANGED ivars

\* Both streams are at end of file.
EndOfFile == child.closed /\ \A s \in Streams : pipe[s] = 0

\* pipe_output returns in the timeout branch, which returns its tuple.
DrainDoneKilled ==
    /\ cpc = "pipe_output_killed"
    /\ EndOfFile
    /\ pipe_output_done' = pipe_output_done + 1
    /\ ret' = TimeoutTuple(start_time, now)
    /\ cpc' = "returned"
    /\ UNCHANGED <<has_timeout, timeout, child, pipe, sink, now, start_time,
                   wt_result, wait_result, kill_calls, pipe_output_calls>>
    /\ UNCHANGED ivars

\* pipe_output returns in the other branch.
DrainDone ==
    /\ cpc = "pipe_output"
    /\ EndOfFile
    /\ pipe_output_done' = pipe_output_done + 1
    /\ cpc' = "wait"
    /\ UNCHANGED <<has_timeout, timeout, child, pipe, sink, now, start_time,
                   wt_result, wait_result, kill_calls, pipe_output_calls, ret>>
    /\ UNCHANGED ivars

\* child.wait() returns, Ok(status) or Err, and the match builds the tuple.
Wait ==
    /\ cpc = "wait"
    /\ child.state # "running"
    /\ \E waitOk \in BOOLEAN :
          /\ wait_result' = IF waitOk THEN "Ok" ELSE "Err"
          /\ ret' = StatusTuple(start_time, now, waitOk, child)
    /\ cpc' = "returned"
    /\ UNCHANGED <<has_timeout, timeout, child, pipe, sink, now, start_time,
                   wt_result, kill_calls, pipe_output_calls, pipe_output_done>>
    /\ UNCHANGED ivars

\* ---------------------------------------------------------------- actions
\* No child is being supervised.
NoChild ==
    /\ has_timeout = FALSE
    /\ timeout = 1
    /\ child = [state |-> "running", code |-> 0, signal |-> 0,
                to_write |-> [s \in Streams |-> 0], closed |-> FALSE]
    /\ pipe = [s \in Streams |-> 0]
    /\ sink = [s \in Streams |-> 0]
    /\ now = 0
    /\ cpc = "none"
    /\ start_time = 0
    /\ wt_result = "none"
    /\ wait_result = "none"
    /\ kill_calls = 0
    /\ pipe_output_calls = 0
    /\ pipe_output_done = 0
    /\ ret = NoTuple

\* No argument file is being read.
NoFile ==
    /\ file = <<>>
    /\ iter = Unopened
    /\ ipc = "none"
    /\ out = <<>>
    /\ refill_log = <<>>
    /\ read_errors = 0

InitChild ==
    /\ has_timeout \in BOOLEAN
    /\ timeout \in 1..MaxTimeout
    /\ child \in [state : {"running"}, code : {0}, signal : {0},
                  to_write : [Streams -> 0..MaxOutput], closed : {FALSE}]
    /\ pipe = [s \in Streams |-> 0]
    /\ sink = [s \in Streams |-> 0]
    /\ now = 0
    /\ cpc = "entry"
    /\ start_time = 0
    /\ wt_result = "none"
    /\ wait_result = "none"
    /\ kill_calls = 0
    /\ pipe_output_calls = 0
    /\ pipe_output_done = 0
    /\ ret = NoTuple
    /\ NoFile

NextChild ==
    \/ ChildWrite \/ ChildClose \/ ChildExit \/ ChildSignalled \/ Tick
    \/ Start \/ WaitTimeoutExited \/ WaitTimeoutExpired \/ WaitTimeoutErr
    \/ Kill \/ DrainRead \/ DrainDoneKilled \/ DrainDone \/ Wait

SpecChild == InitChild /\ [][NextChild]_vars

Files == UNION {[1..n -> Bytes] : n \in 0..MaxFileLen}

Init ==
    /\ file \in Files
    /\ iter = Unopened
    /\ ipc = "unopened"
    /\ out = <<>>
    /\ refill_log = <<>>
    /\ read_errors = 0
    /\ NoChild

\* InputIterator::new(path, args): the open or the first read may fail.
New ==
    /\ ipc = "unopened"
    /\ \E args \in 0..MaxTotal, ioOk \in BOOLEAN :
          IF ~ioOk
          THEN /\ ipc' = "failed"
               /\ UNCHANGED <<iter, refill_log, read_errors>>
          ELSE LET r == InputBufferNew(DiskBufferRefill(DiskBufferOpen, 0))
               IN  /\ iter' = [total_arguments |-> args,
                               curr_argument   |-> 0,
                               input_buffer    |-> r.buf]
                   /\ ipc' = IF r.panic THEN "panicked" ELSE "ready"
                   /\ refill_log' = <<0>>
                   /\ read_errors' = 0
    /\ UNCHANGED <<file, out>>
    /\ UNCHANGED cvars

\* One call of InputIterator::next().
Call ==
    /\ ipc = "ready"
    /\ Len(out) < MaxCalls
    /\ \E readOk \in BOOLEAN :
          LET r == next(iter, readOk)
          IN  /\ iter' = r.it
              /\ out' = Append(out, r.item)
              /\ ipc' = IF r.item.tag = "Panic" THEN "panicked" ELSE "ready"
              /\ refill_log' = IF Refills(iter)
                               THEN Append(refill_log, PreserveArg(iter))
                               ELSE refill_log
              /\ read_errors' = IF Refills(iter) /\ ~readOk
                                THEN read_errors + 1
                                ELSE read_errors
    /\ UNCHANGED file
    /\ UNCHANGED cvars

Next == New \/ Call

Spec == Init /\ [][Next]_vars

\* ------------------------------------------------- what the file contains
\* The positions (1-based) of the newlines of a file.
NewlinePositions(f) == {i \in 1..Len(f) : f[i] = NL}

\* The number of newline-terminated records of a file.
NumRecords(f) == Cardinality(NewlinePositions(f))

KthNewline(f, k) ==
    CHOOSE i \in NewlinePositions(f) :
        Cardinality({j \in NewlinePositions(f) : j <= i}) = k

\* The k-th newline-terminated record of a file, without its newline.
Record(f, k) ==
    SubSeq(f, IF k = 1 THEN 1 ELSE KthNewline(f, k - 1) + 1, KthNewline(f, k) - 1)

\* The bytes after the last newline of a file (the whole file if it has none).
FileTail(f) ==
    SubSeq(f, IF NumRecords(f) = 0 THEN 1 ELSE KthNewline(f, NumRecords(f)) + 1, Len(f))

NewlineTerminated(f) == Len(f) = 0 \/ f[Len(f)] = NL

\* No call of next() returned Some(Err(..)).
NoReadError == \A k \in 1..Len(out) : out[k].tag # "Err"

\* ------------------------------------------------------------------ claims

\* Every newline-terminated record of the file fits, with its newline, in
\* the buffer.
RecordsFit(f) == \A k \in 1..NumRecords(f) : Len(Record(f, k)) < BUFFER_SIZE

\* C1 (Totality): for a file of n newline-terminated records (each fitting
\* in the buffer) and t <= n, and with no read error and no panic, the k-th
\* call of next() returns the k-th record of the file for k <= t, and None
\* after that.
C1_Totality ==
    (/\ ipc = "ready"
     /\ NoReadError
     /\ NewlineTerminated(file)
     /\ RecordsFit(file)
     /\ iter.total_arguments <= NumRecords(file))
    => \A k \in 1..Len(out) :
          out[k] = IF k <= iter.total_arguments
                   THEN SomeOk(from_utf8_lossy(Record(file, k)))
                   ELSE None

\* The bytes of the window after its last newline (the partial trailing
\* record); the whole window when it holds no newline.
WindowTail(db) ==
    LET nls  == {i \in 0..(db.capacity - 1) : db.data[i] = NL}
        from == IF nls = {} THEN 0
                ELSE (CHOOSE i \in nls : \A j \in nls : j <= i) + 1
    IN  Slice(db.data, from, db.capacity)

\* A step in which next() refilled the buffer, the read succeeded and the
\* file, made of records that fit in the buffer, had bytes left to read.
RefillStep ==
    /\ ipc = "ready"
    /\ Refills(iter)
    /\ NewlineTerminated(file)
    /\ RecordsFit(file)
    /\ iter.input_buffer.disk_buffer.offset < Len(file)
    /\ out' # out
    /\ out'[Len(out')].tag # "Err"

\* C2 (Partial-tail survival): on a refill, the refill is told to preserve
\* exactly the length of the partial trailing record of the previous window,
\* and those bytes are at the front of the buffer after it.
C2_TailSurvives ==
    [][RefillStep =>
         LET tail == WindowTail(iter.input_buffer.disk_buffer)
         IN  /\ refill_log'[Len(refill_log')] = Len(tail)
             /\ \A i \in 1..Len(tail) :
                   iter'.input_buffer.disk_buffer.data[i - 1] = tail[i]]_vars

\* C3 (Record fidelity): when the file is n records joined by '\n' (with or
\* without a newline after the last one), each fitting in the buffer, and
\* expected_total = n, the k-th call of next() returns the text of the k-th
\* record, for every record that is followed by a newline.
C3_RoundTrip ==
    (/\ ipc = "ready"
     /\ NoReadError
     /\ RecordsFit(file)
     /\ Len(FileTail(file)) < BUFFER_SIZE
     /\ iter.total_arguments = IF NewlineTerminated(file)
                               THEN NumRecords(file)
                               ELSE NumRecords(file) + 1)
    => \A k \in 1..Len(out) :
          k <= NumRecords(file)
          => out[k] = SomeOk(from_utf8_lossy(Record(file, k)))

\* C4 (missing trailing newline): when the file's last record has no
\* trailing newline and expected_total counts it, next() returns that tail as
\* the final record and None on the call after it.
C4_UnterminatedTail ==
    (/\ ipc = "ready"
     /\ NoReadError
     /\ ~NewlineTerminated(file)
     /\ iter.total_arguments = NumRecords(file) + 1)
    => /\ Len(out) >= iter.total_arguments
          => out[iter.total_arguments] = SomeOk(from_utf8_lossy(FileTail(file)))
       /\ Len(out) > iter.total_arguments
          => out[iter.total_arguments + 1] = None

\* C5 (Termination at the declared total): once curr_argument equals
\* total_arguments, a call of next() returns None and leaves the iterator
\* (counters, window bounds, cursor, buffer) unchanged, with no refill.
C5_DepletedIsFinal ==
    [][(ipc = "ready" /\ iter.curr_argument = iter.total_arguments)
        => /\ iter' = iter
           /\ ipc' = ipc
           /\ refill_log' = refill_log
           /\ out' = Append(out, None)]_vars

\* A second None in a row, after at least one record, with records left in
\* the file beyond the declared total.
C5_Witness ==
    /\ ipc = "ready"
    /\ iter.total_arguments >= 1
    /\ NumRecords(file) > iter.total_arguments
    /\ Len(out) >= iter.total_arguments + 2
    /\ out[Len(out)] = None
    /\ out[Len(out) - 1] = None

\* C6 (Timeout path): when wait_timeout returned Ok(None), handle_child
\* calls child.kill() before pipe_output touches the streams, and when it
\* returns it has killed once, drained once to completion, and its tuple has
\* exit_code = -1 and signal = 15.
C6_TimeoutPath ==
    wt_result = "None"
    => /\ kill_calls = 0 => (pipe_output_calls = 0 /\ \A s \in Streams : sink[s] = 0)
       /\ kill_calls <= 1
       /\ cpc = "returned"
          => /\ kill_calls = 1
             /\ pipe_output_calls = 1
             /\ pipe_output_done = 1
             /\ ret.exit_code = -1
             /\ ret.signal = 15

\* handle_child has returned on the timeout path, having drained output of
\* the killed child.
C6_Witness ==
    /\ cpc = "returned"
    /\ wt_result = "None"
    /\ child.state = "signalled"
    /\ child.signal = SIGKILL
    /\ sink["stdout"] > 0

\* C7 (Exit-status mapping): when the child was not killed for timeout,
\* the tuple returned is (c, 0) for a child that exited with code c,
\* (-1, s) for a child terminated by signal s, and (-1, 0) when child.wait()
\* failed.
C7_ExitStatus ==
    (cpc = "returned" /\ wt_result # "None")
    => /\ wait_result \in {"Ok", "Err"}
       /\ (wait_result = "Ok" /\ child.state = "exited")
          => (ret.exit_code = child.code /\ ret.signal = 0)
       /\ (wait_result = "Ok" /\ child.state = "signalled")
          => (ret.exit_code = -1 /\ ret.signal = child.signal)
       /\ wait_result = "Err"
          => (ret.exit_code = -1 /\ ret.signal = 0)

\* handle_child has returned for a child that was terminated by a signal
\* within its deadline.
C7_Witness ==
    /\ cpc = "returned"
    /\ has_timeout
    /\ wt_result = "Some"
    /\ wait_result = "Ok"
    /\ child.state = "signalled"
    /\ child.signal = 2

\* C8 (Concurrent draining): handle_child is never waiting for the child to
\* exit while the child is blocked writing to a full pipe.
C8_NeverStalled == ~(cpc \in {"wait_timeout", "wait"} /\ Blocked)

\* C9 (Drained before return): when handle_child has returned, pipe_output
\* has been called exactly once, has returned, and both streams are at end
\* of file.
C9_DrainedOnce ==
    cpc = "returned"
    => /\ pipe_output_calls = 1
       /\ pipe_output_done = 1
       /\ child.closed
       /\ \A s \in Streams : pipe[s] = 0

\* handle_child has returned for a child that wrote to stdout and to stderr
\* and exited with code 0, and the sink has got bytes of both.
C9_Witness ==
    /\ cpc = "returned"
    /\ child.state = "exited"
    /\ child.code = 0
    /\ sink["stdout"] > 0
    /\ sink["stderr"] > 0

\* C10 (The supervisor never fails): handle_child never panics, whatever
\* the wait operations return.
C10_NeverPanics == cpc # "panicked"

\* C11 (Terminal after an error): once a call of next() has returned
\* Some(Err(..)), every later call returns None and makes no call of the
\* disk buffer.
C11_TerminalAfterError ==
    [][(ipc = "ready" /\ ~NoReadError)
        => (out' = Append(out, None) /\ refill_log' = refill_log)]_vars

\* The file starts with a record that is longer than the buffer.
FirstRecordTooLong(f) ==
    /\ Len(f) > BUFFER_SIZE
    /\ \A i \in 1..BUFFER_SIZE : f[i] # NL

\* A step in which next() refilled the buffer without a read error and the
\* new window is not empty and holds no newline.
RefilledWithoutNewline ==
    /\ ipc = "ready"
    /\ Refills(iter)
    /\ out' # out
    /\ read_errors' = read_errors
    /\ LET db == iter'.input_buffer.disk_buffer
       IN  /\ db.capacity > 0
           /\ \A i \in 0..(db.capacity - 1) : db.data[i] # NL

\* C12 (Record too long): when the file starts with a record longer than
\* the buffer and a freshly refilled, non-empty window holds no newline,
\* next() returns an error instead of a record.
C12_RecordTooLong ==
    [][(FirstRecordTooLong(file) /\ RefilledWithoutNewline)
        => out'[Len(out')].tag = "Err"]_vars

\* The file is made of newlines only: every record is empty.
OnlyNewlines(f) == \A i \in 1..Len(f) : f[i] = NL

\* C13 (Empty records): for a file of n empty records, whatever n, and
\* t <= n, no call panics, the k-th call of next() returns the empty string
\* for k <= t, and None after that.
C13_EmptyRecords ==
    (/\ ipc \in {"ready", "panicked"}
     /\ NoReadError
     /\ OnlyNewlines(file)
     /\ iter.total_arguments <= NumRecords(file))
    => /\ ipc = "ready"
       /\ \A k \in 1..Len(out) :
             out[k] = IF k <= iter.total_arguments THEN SomeOk(<<>>) ELSE None

\* C14 (Signal field): in the tuple handle_child returns after a wait that
\* did not fail, signal is 0 for a child that exited normally, 15 for a
\* child the supervisor killed, and the terminating signal otherwise.
C14_SignalField ==
    (cpc = "returned" /\ wait_result # "Err" /\ child.state # "running")
    => ret.signal = CASE child.state = "exited" -> 0
                      [] child.state = "signalled" /\ child.signal = SIGKILL -> 15
                      [] OTHER -> child.signal

\* The number of complete records in the current window: the newlines among
\* the valid bytes of the buffer.
WindowCount(buf) ==
    Cardinality({i \in 0..(buf.disk_buffer.capacity - 1) :
                    buf.disk_buffer.data[i] = NL})

\* C15 (Window invariant): in every state of a stream over a file of
\* newline-terminated records that fit in the buffer, opened with a total
\* within the file, end - start is the number of complete records in the
\* current window.
C15_WindowInvariant ==
    (/\ ipc = "ready"
     /\ NewlineTerminated(file)
     /\ RecordsFit(file)
     /\ iter.total_arguments <= NumRecords(file))
    => iter.input_buffer.end - iter.input_buffer.start
         = WindowCount(iter.input_buffer)

\* The positions of the newlines in data[0..b) of a buffer.
DelimiterPositions(buf) ==
    {i \in 0..(buf.disk_buffer.capacity - 1) : buf.disk_buffer.data[i] = NL}

\* What count_arguments must leave behind, given the window end before it.
ScanPost(buf, end_before) ==
    LET P == DelimiterPositions(buf)
        c == Cardinality(P)
    IN  /\ c < IndicesLen
        /\ \A k \in 1..c :
              /\ buf.indices[k] \in P
              /\ Cardinality({q \in P : q < buf.indices[k]}) = k - 1
              /\ buf.indices[k] < buf.disk_buffer.capacity
        /\ \A k \in 2..c : buf.indices[k - 1] < buf.indices[k]
        /\ buf.indices[0] = 0
        /\ buf.end = end_before + c
        /\ buf.capacity = IF P = {} THEN 0
                          ELSE CHOOSE p \in P : \A q \in P : q <= p

\* C16 (count_arguments is a correct scan): whenever count_arguments has run
\* and returned, in new() or in a refill, indices[1..c] are the positions of
\* the c newlines of data[0..b) in increasing order, indices[0] is 0, end has
\* grown by c, and capacity is the position of the last newline (0 if none).
C16_ScanPost ==
    [][/\ (ipc = "unopened" /\ ipc' = "ready")
          => ScanPost(iter'.input_buffer, 0)
       /\ (/\ ipc = "ready" /\ ipc' = "ready"
           /\ Len(refill_log') = Len(refill_log) + 1
           /\ read_errors' = read_errors)
          => ScanPost(iter'.input_buffer, iter.input_buffer.end)]_vars

\* A stream that counted two newlines at newline positions 1 and 3 in its
\* first window and one more in a refill.
C16_Witness ==
    /\ ipc = "ready"
    /\ Len(refill_log) = 2
    /\ read_errors = 0
    /\ file = <<97, NL, 97, NL>>
    /\ iter.input_buffer.end = 3
    /\ iter.input_buffer.indices[1] = 1

\* C17 (Cursor/window state machine): in every state of the stream the
\* cursor is at most the number of complete records in the current window,
\* so that a call that returned a record read it from a slot written for the
\* current window.
C17_CursorInWindow ==
    ipc = "ready"
    => iter.input_buffer.index <= WindowCount(iter.input_buffer)

\* C18 (A read failure is surfaced and not retried): a call of next() whose
\* disk-buffer read fails returns Some(Err(FileRead)) after exactly one read
\* attempt, emits no record, and leaves curr_argument, the cursor, the window
\* start and the window end as they were.
C18_ReadFailureSurfaced ==
    [][(read_errors' = read_errors + 1)
       => /\ out' = Append(out, SomeErr)
          /\ Len(refill_log') = Len(refill_log) + 1
          /\ ipc' = "ready"
          /\ iter'.curr_argument = iter.curr_argument
          /\ iter'.input_buffer.index = iter.input_buffer.index
          /\ iter'.input_buffer.start = iter.input_buffer.start
          /\ iter'.input_buffer.end = iter.input_buffer.end]_vars

\* A stream that returned a record from its first window and then failed to
\* read the second.
C18_Witness ==
    /\ Len(out) = 2
    /\ out[1].tag = "Ok"
    /\ out[2] = SomeErr
    /\ read_errors = 1
    /\ iter.curr_argument = 1
    /\ iter.input_buffer.end = 1

\* C19 (Index-array bounds safety): whatever the file holds and whatever
\* total is declared, no write of indices[capacity + 1], no read of
\* indices[index + 1] and no slice data[start..end] is out of range: neither
\* new() nor any call of next() panics.
C19_IndexInBounds == ipc # "panicked"

\* The step is a call of next() that returned an item of one of the tags.
Returned(tags) ==
    /\ Len(out') = Len(out) + 1
    /\ out'[Len(out')].tag \in tags

\* The step is a call of next() that refilled the window.
Refilled == Len(refill_log') = Len(refill_log) + 1

\* C20 as stated (Emitted-counter invariant): curr_argument <= total_arguments
\* in every state; a call that returns Some(Ok(_)) increases curr_argument and
\* the cursor by exactly 1; a call that returns None or Some(Err(_)) leaves
\* curr_argument unchanged; next() never modifies total_arguments.
C20_CursorStepsByOne ==
    [][/\ iter'.curr_argument <= iter'.total_arguments
       /\ Returned({"Ok"})
          => /\ iter'.curr_argument = iter.curr_argument + 1
             /\ iter'.input_buffer.index = iter.input_buffer.index + 1
       /\ Returned({"None", "Err"})
          => iter'.curr_argument = iter.curr_argument
       /\ Returned({"Ok", "None", "Err"})
          => iter'.total_arguments = iter.total_arguments]_vars

\* C20 (Emitted-counter invariant, amended): curr_argument <= total_arguments
\* in every state; a call that returns Some(Ok(_)) increases curr_argument by
\* exactly 1 and leaves the cursor at 1 when the call refilled the window and
\* one above its old value otherwise; a call that returns None or
\* Some(Err(_)) leaves curr_argument unchanged; next() never modifies
\* total_arguments.
C20_EmittedCounter ==
    [][/\ iter'.curr_argument <= iter'.total_arguments
       /\ Returned({"Ok"})
          => /\ iter'.curr_argument = iter.curr_argument + 1
             /\ iter'.input_buffer.index =
                   IF Refilled THEN 1 ELSE iter.input_buffer.index + 1
       /\ Returned({"None", "Err"})
          => iter'.curr_argument = iter.curr_argument
       /\ Returned({"Ok", "None", "Err"})
          => iter'.total_arguments = iter.total_arguments]_vars

\* A stream whose second call refilled the window and returned a record: the
\* cursor is 1 again, with two records emitted.
C20_Witness ==
    /\ Len(out) = 2
    /\ out[1].tag = "Ok"
    /\ out[2].tag = "Ok"
    /\ Len(refill_log) = 2
    /\ read_errors = 0
    /\ iter.curr_argument = 2
    /\ iter.input_buffer.index = 1
    /\ ipc = "ready"

====
